---- MODULE Spec2Model ----
(***************************************************************************)
(* A model of abaqus_inside.py: helper functions run inside the Abaqus CAE *)
(* interpreter.  The host objects the functions drive are modelled by      *)
(* their observable state: the folder on disk (fs), the session's          *)
(* repository of open Odbs (session_odbs) and the model database (mdb).    *)
(***************************************************************************)
EXTENDS Integers, Sequences, FiniteSets, TLC

(***************************************************************************)
(* Bounds of the model.                                                    *)
(***************************************************************************)
MaxStems == 1
MaxFiles == 3
MaxModels == 2

StemNames == <<"a", "b", "c", "d">>
Stems == {StemNames[i] : i \in 1..MaxStems}

VARIABLES
    platform,             \* os.name of the interpreter: "posix" or "nt"
    fs,                   \* the folder: path -> file content
    fs0,                  \* the folder as it was when the call started
    print_every,          \* argument of odbs_upgrade_odbs_folder
    odb_list,             \* local of odbs_upgrade_odbs_folder
    upgradable_odb_list,  \* local of odbs_upgrade_odbs_folder
    job_number,           \* loop index of odbs_upgrade_odbs_folder
    upc,                  \* position in odbs_upgrade_odbs_folder
    disk,                 \* the .odb files the session can see: path -> state
    node_sets,            \* odb.rootAssembly.nodeSets of the Odbs: set of names
    session_odbs,         \* session.odbs: path -> open Odb object
    ctf,                  \* locals of odbs_get_calc_time_folder
    spc,                  \* position in odbs_get_calc_time_folder
    last,                 \* the last call of a session function and its outcome
    mdb_models,           \* mdb.models: model key -> names in rootAssembly.sets
    mdb0,                 \* mdb.models when models_modify_set_name was called
    margs,                \* arguments of models_modify_set_name
    mitems,               \* the list mdb.models.items() of the loop
    mi,                   \* number of models the loop has done
    mpc                   \* position in models_modify_set_name

uvars == <<platform, fs, fs0, print_every, odb_list, upgradable_odb_list,
           job_number, upc>>

svars == <<disk, node_sets, session_odbs, ctf, spc, last>>

mvars == <<mdb_models, mdb0, margs, mitems, mi, mpc>>

vars == <<uvars, svars, mvars>>

(***************************************************************************)
(* Generic helpers: finite maps and Python lists.                          *)
(***************************************************************************)
Put(f, k, v) == [x \in DOMAIN f \cup {k} |-> IF x = k THEN v ELSE f[x]]

Remove(f, k) == [x \in DOMAIN f \ {k} |-> f[x]]

Range(s) == {s[i] : i \in DOMAIN s}

Perms(S) == {s \in [1..Cardinality(S) -> S] : \A i, j \in DOMAIN s : s[i] = s[j] => i = j}

RECURSIVE SelectSeqBy(_, _)
\* [i for i in s if i in keep]
SelectSeqBy(s, keep) ==
    IF s = <<>> THEN <<>>
    ELSE (IF Head(s) \in keep THEN <<Head(s)>> ELSE <<>>) \o SelectSeqBy(Tail(s), keep)

(***************************************************************************)
(* Paths.  A path is a sequence of tokens; ".odb" and "-old" are tokens of *)
(* their own, so that str.replace acts on every occurrence of ".odb".      *)
(***************************************************************************)
TempStem == "temp_odb_name"

temp_name == <<TempStem, ".odb">>

RECURSIVE str_replace_odb(_)
\* job_key.replace('.odb', '-old.odb'): every occurrence is replaced
str_replace_odb(p) ==
    IF p = <<>> THEN <<>>
    ELSE (IF Head(p) = ".odb" THEN <<"-old", ".odb">> ELSE <<Head(p)>>)
         \o str_replace_odb(Tail(p))

old_name_of(job_key) == str_replace_odb(job_key)

has_extension(p, ext) == Len(p) > 0 /\ p[Len(p)] = ext

\* The names a folder may hold before the call: results, earlier backups,
\* a file with ".odb" inside its stem, a leftover temporary file, and
\* files of another extension.
InitNames ==
    {<<s, ".odb">> : s \in Stems \cup {TempStem}}
    \cup {<<s, "-old", ".odb">> : s \in Stems}
    \cup {<<s, ".odb", ".odb">> : s \in Stems}
    \cup {<<s, ".sta">> : s \in Stems}

\* Content of a file: which original file it stems from, whether the host
\* says it requires upgrade, and whether it is the output of upgradeOdb.
original(p, needs) == [orig |-> p, needs |-> needs, upgraded |-> FALSE]

upgraded_copy(c) == [orig |-> c.orig, needs |-> FALSE, upgraded |-> TRUE]

\* files_with_extension_lister(folder, '.odb', full_name_option=True, ...):
\* the full names of the folder's files with the extension, in the order
\* the directory enumeration happens to give.
files_with_extension_lister(folder, ext) ==
    Perms({p \in DOMAIN folder : has_extension(p, ext)})

isUpgradeRequiredForOdb(folder, p) == folder[p].needs

\* os.rename(src, dst): raises when src is missing; when dst exists it is
\* silently replaced on POSIX and OSError is raised on Windows.
os_rename(folder, src, dst, plat) ==
    IF src \notin DOMAIN folder THEN [raised |-> TRUE, fs |-> folder]
    ELSE IF dst \in DOMAIN folder /\ plat = "nt" THEN [raised |-> TRUE, fs |-> folder]
    ELSE [raised |-> FALSE, fs |-> Put(Remove(folder, src), dst, folder[src])]

\* session.upgradeOdb(existingOdbPath, upgradedOdbPath): the host writes an
\* upgraded copy; it raises when the existing file is missing, and what it
\* does with an upgradedOdbPath that exists is the host's choice.
session_upgradeOdb(folder, existing, upgradedPath) ==
    IF existing \notin DOMAIN folder THEN {[raised |-> TRUE, fs |-> folder]}
    ELSE {[raised |-> FALSE, fs |-> Put(folder, upgradedPath, upgraded_copy(folder[existing]))]}
         \cup (IF upgradedPath \in DOMAIN folder
               THEN {[raised |-> TRUE, fs |-> folder]} ELSE {})

(***************************************************************************)
(* The variables of the functions a specification does not run.            *)
(***************************************************************************)
None == [kind |-> "None"]

SParked ==
    /\ disk = <<>>
    /\ node_sets = {}
    /\ session_odbs = <<>>
    /\ ctf = None
    /\ spc = "idle"
    /\ last = None

MParked ==
    /\ mdb_models = <<>>
    /\ mdb0 = <<>>
    /\ margs = None
    /\ mitems = <<>>
    /\ mi = 0
    /\ mpc = "idle"

UParked ==
    /\ platform = "posix"
    /\ fs = <<>>
    /\ fs0 = <<>>
    /\ print_every = 1
    /\ odb_list = <<>>
    /\ upgradable_odb_list = <<>>
    /\ job_number = 0
    /\ upc = "idle"

(***************************************************************************)
(* odbs_upgrade_odbs_folder                                                *)
(***************************************************************************)
PrintEveryValues == {0, 1, 2}

UInit ==
    /\ SParked
    /\ MParked
    /\ platform \in {"posix", "nt"}
    /\ \E F \in SUBSET InitNames :
          /\ Cardinality(F) <= MaxFiles
          /\ \E needs \in [F -> BOOLEAN] :
                fs = [p \in F |-> original(p, has_extension(p, ".odb") /\ needs[p])]
    /\ fs0 = fs
    /\ print_every \in PrintEveryValues
    /\ odb_list = <<>>
    /\ upgradable_odb_list = <<>>
    /\ job_number = 0
    /\ upc = "idle"

upgradable_first_only(list, folder) ==
    LET l == SelectSeqBy(list, {p \in Range(list) : isUpgradeRequiredForOdb(folder, p)})
    IN  IF l = <<>> THEN l ELSE <<Head(l)>>

\* line 146: [i for i in odb_list if odbAccess.isUpgradeRequiredForOdb(i)]
upgradable(list, folder) ==
    SelectSeqBy(list, {p \in Range(list) : isUpgradeRequiredForOdb(folder, p)})

\* lines 145-148: list the folder and filter the files requiring upgrade
UpgradeList ==
    /\ upc = "idle"
    /\ \E l \in files_with_extension_lister(fs, ".odb") :
          /\ odb_list' = l
          /\ upgradable_odb_list' = upgradable(l, fs)
    /\ job_number' = 0
    /\ upc' = "loop"
    /\ UNCHANGED <<platform, fs, fs0, print_every, svars, mvars>>

job_key == upgradable_odb_list[job_number + 1]

\* lines 149-155: next job; divmod raises for print_every = 0
UpgradeOdb ==
    /\ upc = "loop"
    /\ job_number < Len(upgradable_odb_list)
    /\ IF print_every = 0
       THEN /\ upc' = "error"
            /\ UNCHANGED fs
       ELSE \E r \in session_upgradeOdb(fs, job_key, temp_name) :
               /\ fs' = r.fs
               /\ upc' = IF r.raised THEN "error" ELSE "upgraded"
    /\ UNCHANGED <<platform, fs0, print_every, odb_list, upgradable_odb_list, job_number, svars, mvars>>

\* line 157: os.rename(job_key, old_name)
RenameOld ==
    /\ upc = "upgraded"
    /\ LET r == os_rename(fs, job_key, old_name_of(job_key), platform)
       IN  /\ fs' = r.fs
           /\ upc' = IF r.raised THEN "error" ELSE "renamed"
    /\ UNCHANGED <<platform, fs0, print_every, odb_list, upgradable_odb_list, job_number, svars, mvars>>

\* line 158: os.rename(temp_name, new_name), then the next iteration
RenameNew ==
    /\ upc = "renamed"
    /\ LET r == os_rename(fs, temp_name, job_key, platform)
       IN  /\ fs' = r.fs
           /\ upc' = IF r.raised THEN "error" ELSE "loop"
           /\ job_number' = IF r.raised THEN job_number ELSE job_number + 1
    /\ UNCHANGED <<platform, fs0, print_every, odb_list, upgradable_odb_list, svars, mvars>>

\* lines 159-160: the list is exhausted
UpgradeDone ==
    /\ upc = "loop"
    /\ job_number = Len(upgradable_odb_list)
    /\ upc' = "done"
    /\ UNCHANGED <<platform, fs, fs0, print_every, odb_list, upgradable_odb_list, job_number, svars, mvars>>

\* the process is interrupted at a step inside the loop
UpgradeInterrupt ==
    /\ upc \in {"loop", "upgraded", "renamed"}
    /\ job_number < Len(upgradable_odb_list)
    /\ upc' = "interrupted"
    /\ UNCHANGED <<platform, fs, fs0, print_every, odb_list, upgradable_odb_list, job_number, svars, mvars>>

UNext ==
    \/ UpgradeList
    \/ UpgradeOdb
    \/ RenameOld
    \/ RenameNew
    \/ UpgradeDone
    \/ UpgradeInterrupt

SpecUpgrade == UInit /\ [][UNext]_vars

(***************************************************************************)
(* Properties of odbs_upgrade_odbs_folder                                  *)
(***************************************************************************)
OdbFiles(folder) == {p \in DOMAIN folder : has_extension(p, ".odb")}

Holds(folder, p, c) == p \in DOMAIN folder /\ folder[p] = c

\* C2: after a complete run every listed file that required upgrade holds
\* the upgraded file at its path and the original at its '-old.odb' path,
\* the temporary file the run wrote is gone, and every listed file that did
\* not require upgrade is unchanged.  (The temporary-file clause is read as
\* being about the file the run wrote: a leftover one of a run that had
\* nothing to upgrade counts as an unchanged listed file.)
C2_CompleteRun ==
    upc = "done" =>
        /\ \A p \in Range(odb_list) :
              fs0[p].needs =>
                  /\ Holds(fs, p, upgraded_copy(fs0[p]))
                  /\ Holds(fs, old_name_of(p), fs0[p])
        /\ upgradable_odb_list # <<>> => temp_name \notin DOMAIN fs
        /\ \A p \in Range(odb_list) :
              (~fs0[p].needs /\ (p = temp_name => upgradable_odb_list = <<>>))
                  => Holds(fs, p, fs0[p])

\* C3 as stated: after a complete run no .odb file of the folder still
\* requires upgrade.
C3_NoneRequiresUpgrade ==
    upc = "done" => \A p \in OdbFiles(fs) : ~isUpgradeRequiredForOdb(fs, p)

\* C3 as amended: after a complete run the only .odb files of the folder
\* that still require upgrade are pre-upgrade originals kept under the
\* '-old.odb' name of a file the run upgraded, and there is at least one
\* whenever the run upgraded a file.
C3_OnlyBackupsRequireUpgrade ==
    upc = "done" =>
        /\ \A p \in OdbFiles(fs) :
              isUpgradeRequiredForOdb(fs, p) =>
                  /\ ~fs[p].upgraded
                  /\ \E q \in Range(upgradable_odb_list) : p = old_name_of(q)
        /\ upgradable_odb_list # <<>> =>
              \E p \in OdbFiles(fs) : isUpgradeRequiredForOdb(fs, p)

C3_Witness ==
    /\ upc = "done"
    /\ Len(upgradable_odb_list) = 2
    /\ \E p \in OdbFiles(fs) : isUpgradeRequiredForOdb(fs, p)

\* C4: when the run is interrupted inside the loop, every file that
\* required upgrade is either renamed to its '-old.odb' name or untouched
\* under its original name, and the files after the interrupted one are
\* all untouched.  (Stated for the files other than temp_odb_name.odb, the
\* path the host writes to.)
C4_InterruptedStates ==
    upc = "interrupted" =>
        /\ \A p \in Range(upgradable_odb_list) \ {temp_name} :
              \/ Holds(fs, old_name_of(p), fs0[p])
              \/ Holds(fs, p, fs0[p])
        /\ \A i \in (job_number + 2)..Len(upgradable_odb_list) :
              upgradable_odb_list[i] # temp_name =>
                  Holds(fs, upgradable_odb_list[i], fs0[upgradable_odb_list[i]])

\* C9: no rename in the loop overwrites an existing file: after each of
\* the two os.rename calls the content of every file that was on disk
\* before it is still on disk under some name.
C9_RenameKeepsContent ==
    [][(upc = "upgraded" \/ upc = "renamed") =>
          (\A p \in DOMAIN fs : \E q \in DOMAIN fs' : fs[p] = fs'[q])]_vars


(***************************************************************************)
(* The session: names, Odb objects and the host calls on them.             *)
(***************************************************************************)
\* Names are strings, modelled as sequences of character codes.
OdbPaths == {<<1>>, <<1, 1>>, <<2>>}

SetNames == OdbPaths

\* A file of the folder opens and has diagnostic data ("ok"), opens but has
\* no job time ("nodiag"), or cannot be opened ("bad").
DiskStates == {"ok", "nodiag", "bad"}

Numbers == (0 - (Cardinality(OdbPaths) + 1))..Cardinality(OdbPaths)

Str(p) == [kind |-> "str", path |-> p]

\* What a caller may pass as an Odb: a path string or an open Odb object.
OdbIshValues(odbs) == {Str(p) : p \in OdbPaths} \cup Range(odbs)

RECURSIVE str_lt(_, _)
\* a < b on Python strings: lexicographic on character codes
str_lt(a, b) ==
    IF b = <<>> THEN FALSE
    ELSE IF a = <<>> THEN TRUE
    ELSE IF Head(a) # Head(b) THEN Head(a) < Head(b)
    ELSE str_lt(Tail(a), Tail(b))

RECURSIVE insert_sorted(_, _)
insert_sorted(x, s) ==
    IF s = <<>> THEN <<x>>
    ELSE IF str_lt(Head(s), x) THEN <<Head(s)>> \o insert_sorted(x, Tail(s))
    ELSE <<x>> \o s

unsorted(keys) == keys

RECURSIVE sorted(_)
\* sorted(keys)
sorted(keys) ==
    IF keys = <<>> THEN <<>> ELSE insert_sorted(Head(keys), sorted(Tail(keys)))

\* keys[number]: a negative number counts from the end, IndexError outside
py_index(keys, number) ==
    IF 0 <= number /\ number < Len(keys)
    THEN [raised |-> FALSE, value |-> keys[number + 1]]
    ELSE IF number < 0 /\ 0 - Len(keys) <= number
    THEN [raised |-> FALSE, value |-> keys[Len(keys) + number + 1]]
    ELSE [raised |-> TRUE, value |-> None]

\* session.openOdb(path, readOnly): the host opens the file and registers
\* the Odb object in session.odbs under the path; it raises for a file that
\* is missing or cannot be opened.
session_openOdb(odbs, path, readOnly, dsk) ==
    IF path \notin DOMAIN dsk \/ dsk[path] = "bad"
    THEN [raised |-> TRUE, odb |-> None, odbs |-> odbs, opened |-> {}]
    ELSE LET h == [kind |-> "odb", name |-> path, readOnly |-> readOnly]
         IN  [raised |-> FALSE, odb |-> h, odbs |-> Put(odbs, path, h),
              opened |-> {path}]

odbs_odbobject_normalizer_reopens(odbs, odb_ish, dsk) ==
    IF odb_ish.kind = "str"
    THEN session_openOdb(odbs, odb_ish.path, FALSE, dsk)
    ELSE [raised |-> FALSE, odb |-> odb_ish, odbs |-> odbs, opened |-> {}]

\* lines 55-63
odbs_odbobject_normalizer(odbs, odb_ish, dsk) ==
    IF odb_ish.kind = "str"
    THEN IF odb_ish.path \in DOMAIN odbs
         THEN [raised |-> FALSE, odb |-> odbs[odb_ish.path], odbs |-> odbs,
               opened |-> {}]
         ELSE session_openOdb(odbs, odb_ish.path, FALSE, dsk)
    ELSE [raised |-> FALSE, odb |-> odb_ish, odbs |-> odbs, opened |-> {}]

\* odb.diagnosticData.jobTime of the file at a path
jobTime_of(path) ==
    [systemTime |-> Len(path), userTime |-> path[1], wallclockTime |-> Len(path) + path[1]]

\* str(calc_time): the host prints the record as a dict literal in parentheses
str_jobTime(t) ==
    <<[tok |-> "(", val |-> None], [tok |-> "dict", val |-> t], [tok |-> ")", val |-> None]>>

\* s[1:-1]
slice_1_m1(s) == SubSeq(s, 2, Len(s) - 1)

\* ast.literal_eval: the value of a text that is one dict literal
literal_eval(s) ==
    IF Len(s) = 1 /\ s[1].tok = "dict"
    THEN [raised |-> FALSE, value |-> s[1].val]
    ELSE [raised |-> TRUE, value |-> None]

\* lines 95-97: the object whose diagnosticData is read is the argument; the
\* normalizer's return value is not bound to a name
calc_time_subject(odb, normalized) == odb

\* lines 95-102
odbs_get_calc_time(odbs, odb, dsk) ==
    LET r == odbs_odbobject_normalizer(odbs, odb, dsk)
        subject == calc_time_subject(odb, r.odb)
        failed == [raised |-> TRUE, value |-> None, odbs |-> r.odbs,
                   opened |-> r.opened]
    IN  IF r.raised THEN failed
        ELSE IF subject.kind = "str" THEN failed
        ELSE IF subject.name \notin DOMAIN dsk \/ dsk[subject.name] # "ok" THEN failed
        ELSE LET e == literal_eval(slice_1_m1(str_jobTime(jobTime_of(subject.name))))
             IN  IF e.raised THEN failed
                 ELSE [raised |-> FALSE, value |-> e.value, odbs |-> r.odbs,
                       opened |-> r.opened]

\* lines 112-117, on the keys in the order the host enumerates them
odbs_retrieve_odb_name(keys, number) == py_index(sorted(keys), number)

\* lines 128-134
odbs_retrieve_set_name(odbs, odb, number, set_keys, dsk) ==
    LET r == odbs_odbobject_normalizer(odbs, odb, dsk)
    IN  IF r.raised
        THEN [raised |-> TRUE, value |-> None, odbs |-> r.odbs,
              opened |-> r.opened]
        ELSE LET k == py_index(sorted(set_keys), number)
             IN  [raised |-> k.raised, value |-> k.value, odbs |-> r.odbs,
                  opened |-> r.opened]

\* abaqusMacros.odbs_close_all_odbs: closes every Odb of the session
odbs_close_all_odbs(odbs) == <<>>

Call(op, arg, number, raised, result, pre, opened, list, close) ==
    [kind |-> "call", op |-> op, arg |-> arg, number |-> number, raised |-> raised,
     result |-> result, pre |-> pre, opened |-> opened, list |-> list,
     close_odbs |-> close]

SInit ==
    /\ UParked
    /\ MParked
    /\ \E D \in SUBSET OdbPaths :
          /\ Cardinality(D) <= MaxFiles
          /\ disk \in [D -> DiskStates]
    /\ node_sets \in SUBSET SetNames
    /\ session_odbs = <<>>
    /\ ctf = None
    /\ spc = "idle"
    /\ last = None

\* a call of odbs_odbobject_normalizer
Normalize ==
    /\ spc = "idle"
    /\ \E odb_ish \in OdbIshValues(session_odbs) :
          LET r == odbs_odbobject_normalizer(session_odbs, odb_ish, disk)
          IN  /\ session_odbs' = r.odbs
              /\ last' = Call("normalizer", odb_ish, 0, r.raised, r.odb,
                              session_odbs, r.opened, <<>>, FALSE)
    /\ spc' = "returned"
    /\ UNCHANGED <<uvars, mvars, disk, node_sets, ctf>>

\* a call of odbs_get_calc_time
GetCalcTime ==
    /\ spc = "idle"
    /\ \E odb \in OdbIshValues(session_odbs) :
          LET r == odbs_get_calc_time(session_odbs, odb, disk)
          IN  /\ session_odbs' = r.odbs
              /\ last' = Call("get_calc_time", odb, 0, r.raised, r.value,
                              session_odbs, r.opened, <<>>, FALSE)
    /\ spc' = "returned"
    /\ UNCHANGED <<uvars, mvars, disk, node_sets, ctf>>

\* a call of odbs_retrieve_odb_name
RetrieveOdbName ==
    /\ spc = "idle"
    /\ \E number \in Numbers, keys \in Perms(DOMAIN session_odbs) :
          LET r == odbs_retrieve_odb_name(keys, number)
          IN  last' = Call("retrieve_odb_name", None, number, r.raised, r.value,
                           session_odbs, {}, keys, FALSE)
    /\ spc' = "returned"
    /\ UNCHANGED <<uvars, mvars, disk, node_sets, session_odbs, ctf>>

\* a call of odbs_retrieve_set_name
RetrieveSetName ==
    /\ spc = "idle"
    /\ \E odb \in OdbIshValues(session_odbs), number \in Numbers,
          keys \in Perms(node_sets) :
          LET r == odbs_retrieve_set_name(session_odbs, odb, number, keys, disk)
          IN  /\ session_odbs' = r.odbs
              /\ last' = Call("retrieve_set_name", odb, number, r.raised, r.value,
                              session_odbs, r.opened, keys, FALSE)
    /\ spc' = "returned"
    /\ UNCHANGED <<uvars, mvars, disk, node_sets, ctf>>

\* files_with_extension_lister(odbs_folder, '.odb', full_name_option=True, ...)
\* for a folder holding the given .odb files: their full names, in the order
\* the directory enumeration happens to give
odb_files_lister(odbs_folder) == Perms(odbs_folder)

\* lines 75-77 of odbs_get_calc_time_folder: list the folder; odbs_folder
\* holds some of the files on disk
FolderList ==
    /\ spc = "idle"
    /\ \E odbs_folder \in SUBSET DOMAIN disk, close \in BOOLEAN :
       \E list \in odb_files_lister(odbs_folder) :
          ctf' = [kind |-> "ctf", list |-> list, i |-> 0, output |-> <<>>,
                  close_odbs |-> close, opened |-> {}, pre |-> session_odbs]
    /\ spc' = "loop"
    /\ last' = None
    /\ UNCHANGED <<uvars, mvars, disk, node_sets, session_odbs>>

FolderJob_closes_on_error ==
    /\ spc = "loop"
    /\ ctf.i < Len(ctf.list)
    /\ LET key == ctf.list[ctf.i + 1]
           r == odbs_odbobject_normalizer(session_odbs, Str(key), disk)
           t == odbs_get_calc_time(r.odbs, r.odb, disk)
           opened == ctf.opened \cup r.opened
       IN  IF r.raised \/ t.raised
           THEN /\ session_odbs' = IF ctf.close_odbs THEN odbs_close_all_odbs(r.odbs)
                                   ELSE r.odbs
                /\ spc' = "returned"
                /\ ctf' = None
                /\ last' = Call("get_calc_time_folder", None, ctf.i, TRUE, None,
                                ctf.pre, opened, ctf.list, ctf.close_odbs)
           ELSE /\ session_odbs' = r.odbs
                /\ spc' = "loop"
                /\ ctf' = [ctf EXCEPT !.i = @ + 1, !.opened = opened,
                                      !.output = Put(@, key, t.value)]
                /\ last' = last
    /\ UNCHANGED <<uvars, mvars, disk, node_sets>>

\* lines 78-80: one file; an exception leaves the function
FolderJob ==
    /\ spc = "loop"
    /\ ctf.i < Len(ctf.list)
    /\ LET key == ctf.list[ctf.i + 1]
           r == odbs_odbobject_normalizer(session_odbs, Str(key), disk)
           t == odbs_get_calc_time(r.odbs, r.odb, disk)
           opened == ctf.opened \cup r.opened
       IN  /\ session_odbs' = r.odbs
           /\ IF r.raised \/ t.raised
              THEN /\ spc' = "returned"
                   /\ ctf' = None
                   /\ last' = Call("get_calc_time_folder", None, ctf.i, TRUE, None,
                                   ctf.pre, opened, ctf.list, ctf.close_odbs)
              ELSE /\ spc' = "loop"
                   /\ ctf' = [ctf EXCEPT !.i = @ + 1, !.opened = opened,
                                         !.output = Put(@, key, t.value)]
                   /\ last' = last
    /\ UNCHANGED <<uvars, mvars, disk, node_sets>>

FolderReturn_never_closes ==
    /\ spc = "loop"
    /\ ctf.i = Len(ctf.list)
    /\ last' = Call("get_calc_time_folder", None, ctf.i, FALSE, ctf.output,
                    ctf.pre, ctf.opened, ctf.list, ctf.close_odbs)
    /\ spc' = "returned"
    /\ ctf' = None
    /\ UNCHANGED <<uvars, mvars, disk, node_sets, session_odbs>>

\* lines 81-84: close the Odbs if asked to, and return
FolderReturn ==
    /\ spc = "loop"
    /\ ctf.i = Len(ctf.list)
    /\ session_odbs' = IF ctf.close_odbs THEN odbs_close_all_odbs(session_odbs)
                       ELSE session_odbs
    /\ last' = Call("get_calc_time_folder", None, ctf.i, FALSE, ctf.output,
                    ctf.pre, ctf.opened, ctf.list, ctf.close_odbs)
    /\ spc' = "returned"
    /\ ctf' = None
    /\ UNCHANGED <<uvars, mvars, disk, node_sets>>

\* the caller has the result (or the exception) and goes on
Continue ==
    /\ spc = "returned"
    /\ spc' = "idle"
    /\ last' = None
    /\ UNCHANGED <<uvars, mvars, disk, node_sets, session_odbs, ctf>>

SNext ==
    \/ Normalize
    \/ GetCalcTime
    \/ RetrieveOdbName
    \/ RetrieveSetName
    \/ FolderList
    \/ FolderJob
    \/ FolderReturn
    \/ Continue

SpecSession == SInit /\ [][SNext]_vars


(***************************************************************************)
(* models_modify_set_name                                                  *)
(***************************************************************************)
SetKeys == {"Set-1", "Set-2", "Set-3"}

\* model.rootAssembly.sets.changeKey(fromName, toName) of the host: a
\* rename that the name-collision check disallows is dropped silently and
\* leaves the repository as it is; a fromName that is no key is a host
\* error; otherwise the key is renamed.
sets_changeKey(sets, fromName, toName) ==
    IF toName \in sets THEN [raised |-> FALSE, sets |-> sets]
    ELSE IF fromName \notin sets THEN [raised |-> TRUE, sets |-> sets]
    ELSE [raised |-> FALSE, sets |-> (sets \ {fromName}) \cup {toName}]

models_for_body_swapped(models, model_key, set_name, new_set_name) ==
    LET r == sets_changeKey(models[model_key], new_set_name, set_name)
    IN  [raised |-> r.raised, models |-> [models EXCEPT ![model_key] = r.sets]]

\* line 42: the body of the loop for one model; nothing catches what the
\* host raises
models_for_body(models, model_key, set_name, new_set_name) ==
    LET r == sets_changeKey(models[model_key], set_name, new_set_name)
    IN  [raised |-> r.raised, models |-> [models EXCEPT ![model_key] = r.sets]]

MInit ==
    /\ UParked
    /\ SParked
    /\ \E n \in 0..MaxModels : mdb_models \in [1..n -> SUBSET SetKeys]
    /\ mdb0 = mdb_models
    /\ margs \in [set_name : SetKeys, new_set_name : SetKeys]
    /\ mitems = <<>>
    /\ mi = 0
    /\ mpc = "idle"

\* line 41: mdb.models.items(), in the order the repository gives
ModelsItems ==
    /\ mpc = "idle"
    /\ mitems' \in Perms(DOMAIN mdb_models)
    /\ mi' = 0
    /\ mpc' = "loop"
    /\ UNCHANGED <<uvars, svars, mdb_models, mdb0, margs>>

\* lines 41-42: one model
ModelsChangeKey ==
    /\ mpc = "loop"
    /\ mi < Len(mitems)
    /\ LET r == models_for_body(mdb_models, mitems[mi + 1], margs.set_name,
                                margs.new_set_name)
       IN  /\ mdb_models' = r.models
           /\ mpc' = IF r.raised THEN "error" ELSE "loop"
           /\ mi' = IF r.raised THEN mi ELSE mi + 1
    /\ UNCHANGED <<uvars, svars, mdb0, margs, mitems>>

\* line 43
ModelsReturn ==
    /\ mpc = "loop"
    /\ mi = Len(mitems)
    /\ mpc' = "done"
    /\ UNCHANGED <<uvars, svars, mdb_models, mdb0, margs, mitems, mi>>

MNext ==
    \/ ModelsItems
    \/ ModelsChangeKey
    \/ ModelsReturn

SpecModels == MInit /\ [][MNext]_vars

Collides(m) == margs.new_set_name \in mdb0[m]

Renamed(m) == (mdb0[m] \ {margs.set_name}) \cup {margs.new_set_name}

\* C7: models_modify_set_name visits every model and renames the set in it;
\* a model where the host's collision check disallows the rename is left as
\* it was and the other models are still renamed; another host error
\* leaves the function at the model it is raised for.
C7_RenameInEveryModel ==
    /\ mpc = "done" =>
          /\ Range(mitems) = DOMAIN mdb0
          /\ \A m \in DOMAIN mdb0 :
                /\ margs.set_name \in mdb0[m] \/ Collides(m)
                /\ mdb_models[m] = IF Collides(m) THEN mdb0[m] ELSE Renamed(m)
    /\ mpc = "error" =>
          /\ ~Collides(mitems[mi + 1])
          /\ margs.set_name \notin mdb0[mitems[mi + 1]]
          /\ \A k \in 1..mi :
                mdb_models[mitems[k]] =
                    IF Collides(mitems[k]) THEN mdb0[mitems[k]] ELSE Renamed(mitems[k])
          /\ \A k \in (mi + 1)..Len(mitems) : mdb_models[mitems[k]] = mdb0[mitems[k]]

C7_Witness ==
    /\ mpc = "done"
    /\ Len(mitems) = 2
    /\ margs.set_name # margs.new_set_name
    /\ Collides(mitems[1])
    /\ ~Collides(mitems[2])
    /\ mdb_models[mitems[2]] # mdb0[mitems[2]]

(***************************************************************************)
(* Properties of the session functions                                     *)
(***************************************************************************)
Returned(op) == last.kind = "call" /\ last.op = op

\* C1: a call of odbs_odbobject_normalizer that returns gives back a
\* non-string argument itself; for a path it gives the Odb registered in the
\* session under the path, and session.openOdb (read-write) was called if
\* and only if the path was not registered before, so the path is registered
\* afterwards and an open path is not opened again.
C1_NormalizerResolves ==
    (Returned("normalizer") /\ ~last.raised) =>
        IF last.arg.kind = "str"
        THEN /\ last.arg.path \in DOMAIN session_odbs
             /\ last.result = session_odbs[last.arg.path]
             /\ last.result.name = last.arg.path
             /\ last.opened = (IF last.arg.path \in DOMAIN last.pre
                               THEN {} ELSE {last.arg.path})
             /\ last.opened # {} => ~last.result.readOnly
             /\ last.arg.path \in DOMAIN last.pre => session_odbs = last.pre
        ELSE /\ last.result = last.arg
             /\ last.opened = {}
             /\ session_odbs = last.pre

C1_Witness ==
    /\ Returned("normalizer")
    /\ ~last.raised
    /\ last.arg.kind = "str"
    /\ last.opened = {last.arg.path}
    /\ DOMAIN last.pre # {}

\* C5: a call of odbs_get_calc_time_folder that returns has opened every
\* listed file and returns one entry per listed file, keyed by its path;
\* with close_odbs the session has no open Odb afterwards, without it every
\* listed file is open in the session.
C5_FolderResult ==
    (Returned("get_calc_time_folder") /\ ~last.raised) =>
        /\ Len(last.list) = Cardinality(Range(last.list))
        /\ DOMAIN last.result = Range(last.list)
        /\ \A p \in DOMAIN last.result : last.result[p] = jobTime_of(p)
        /\ Range(last.list) \subseteq DOMAIN last.pre \cup last.opened
        /\ last.close_odbs => DOMAIN session_odbs = {}
        /\ ~last.close_odbs => Range(last.list) \subseteq DOMAIN session_odbs

C5_Witness ==
    /\ Returned("get_calc_time_folder")
    /\ ~last.raised
    /\ last.close_odbs
    /\ Len(last.list) >= 2
    /\ last.opened # {}
    /\ DOMAIN last.pre \ Range(last.list) # {}

\* C6: when opening or timing extraction raises for a file, the call of
\* odbs_get_calc_time_folder raises, returns no mapping, and every Odb it
\* opened (and every Odb open before) is still open, with close_odbs too.
C6_FolderRaises ==
    (Returned("get_calc_time_folder") /\ last.raised) =>
        /\ last.result = None
        /\ last.opened \subseteq DOMAIN session_odbs
        /\ DOMAIN last.pre \subseteq DOMAIN session_odbs
        /\ LET key == last.list[last.number + 1]
           IN  key \notin DOMAIN session_odbs \/ disk[key] # "ok"

C6_Witness ==
    /\ Returned("get_calc_time_folder")
    /\ last.raised
    /\ last.close_odbs
    /\ last.number >= 1
    /\ last.opened # {}

\* The ascending list of a set of names.
Ascending(S) ==
    CHOOSE s \in Perms(S) : \A i, j \in DOMAIN s : i < j => str_lt(s[i], s[j])

RetrieveCall ==
    /\ last.kind = "call"
    /\ \/ last.op = "retrieve_odb_name"
       \/ /\ last.op = "retrieve_set_name"
          /\ last.arg.kind = "str" => last.arg.path \in DOMAIN session_odbs

\* C8 as stated: the result is the element at position number of the
\* ascending list of the names, whatever the order of enumeration, and a
\* position outside the list raises.
C8_PositionOrError ==
    RetrieveCall =>
        LET asc == Ascending(Range(last.list))
        IN  IF 0 <= last.number /\ last.number < Len(asc)
            THEN ~last.raised /\ last.result = asc[last.number + 1]
            ELSE last.raised

\* C8 as amended: as stated for 0 <= number < len; a negative number down
\* to -len counts from the end of the ascending list (Python indexing), and
\* only a number below -len or from len on raises.  retrieve_odb_name leaves
\* the session's Odbs as they were.
C8_PythonIndex ==
    RetrieveCall =>
        LET asc == Ascending(Range(last.list))
            n == Len(asc)
        IN  /\ IF 0 <= last.number /\ last.number < n
               THEN ~last.raised /\ last.result = asc[last.number + 1]
               ELSE IF last.number < 0 /\ 0 - n <= last.number
               THEN ~last.raised /\ last.result = asc[n + last.number + 1]
               ELSE last.raised
            /\ last.op = "retrieve_odb_name" =>
                  /\ session_odbs = last.pre
                  /\ Range(last.list) = DOMAIN session_odbs
            /\ last.op = "retrieve_set_name" => Range(last.list) = node_sets

C8_Witness ==
    /\ RetrieveCall
    /\ ~last.raised
    /\ Len(last.list) = 3
    /\ last.list # Ascending(Range(last.list))
    /\ last.number = 0 - 1

\* C10: given the path of a file that opens and has job time data,
\* odbs_get_calc_time returns the job time read from the Odb resolved for
\* the path, as it does when given that Odb.
C10_PathLikeHandle ==
    (/\ Returned("get_calc_time")
     /\ last.arg.kind = "str"
     /\ last.arg.path \in DOMAIN disk
     /\ disk[last.arg.path] = "ok")
        => (~last.raised /\ last.result = jobTime_of(last.arg.path))

====
